---- MODULE Spec2Model ----
(***************************************************************************)
(* A model of audio-whiz: the per-channel capture buffers of               *)
(* src/audio/introspect.rs (written by the playback pull path or by the    *)
(* device callback, read by Introspectable::channels), and the per-tick    *)
(* spectral compositor of src/main.rs (update) over the FrequencySpectrum  *)
(* of src/fft/fft.rs and the interpolation helpers of src/numtools.rs.     *)
(*                                                                         *)
(* The specifications of the module:                                       *)
(*   Spec        the capture buffers: producer and consumer interleave at  *)
(*               the granularity of lock acquisition, push_front,          *)
(*               pop_back, channel advance and lock release;               *)
(*   FairSpec    Spec under a fair scheduler;                              *)
(*   SpecPoison  Spec with a wrapped source that can panic;                *)
(*   SpecSwap    sessions replaced while producers push and the consumer   *)
(*               takes snapshots (a push is one step);                     *)
(*   SpecView    the views made of the snapshots, sliced and analysed;     *)
(*   SpecTick    the compositor: sessions are attached, update ticks run;  *)
(*   SpecPure    the functions of the compositor, each applied alone.      *)
(*                                                                         *)
(* Samples are labelled 1, 2, 3, ... in delivery order (the code is        *)
(* generic in the sample type and never inspects a value); 0 is the zero   *)
(* sample T::default() used for padding.                                   *)
(***************************************************************************)
EXTENDS Integers, Sequences, FiniteSets, TLC

\* ------------------------------------------------------------------ bounds
MaxChannels == 2      \* channel counts 0..MaxChannels
MaxCap == 2           \* buffer_size 0..MaxCap
MaxCalls == 4         \* next() calls (pull) or callback invocations (push)
MaxBlock == 3         \* longest block a device callback delivers
MaxTicks == 3         \* update ticks of one run
MaxTickChannels == 2  \* channel counts 0..MaxTickChannels of an attached session
MaxViewLen == 6       \* view lengths 1..MaxViewLen given to the analysis alone
MaxSwaps == 1         \* session replacements of one run
MaxLatePushes == 1    \* pushes a replaced session's producer still performs

\* ------------------------------------------------------- program constants
\* const LOW_RES_FFT_SIZE: usize = 8192, scaled to 2 together with the sample
\* rates (1..MaxRate instead of 8000..48000), so that a spectrum has two or
\* three bins and a rate below LOW_RES_FFT_SIZE still exists.
LOW_RES_FFT_SIZE == 2
\* 1.0 - (1.0 - lerp_per_cs).pow(delta_time * 100.0) in f32: from 78
\* centiseconds on, 0.8^cs is below 2^-25 and the difference rounds to 1.0.
SaturationCs == 78

\* ------------------------------------------------------------------ inputs
\* Sample rates (scaled): 1 is below LOW_RES_FFT_SIZE; 2 and 4 give spectra
\* of two and three bins, with nyquist 1 and 2.
Rates == {1, 2, 4}
\* The signals a tick's analysis can be given; signal 0 is silence.
Seeds == {0, 1}
\* update.since_last in centiseconds.
DeltaCs == {0, 1, SaturationCs}
\* Elapsed times of two consecutive ticks, in centiseconds.
SplitCs == {0, 1, 2, 3, SaturationCs}
\* <<sample rate, bin count>> of the spectra whose bin/frequency mapping is
\* exercised: the short window (8192 samples, 4097 bins) at 44100, 48000
\* and 8192 Hz, the full window of a 100 Hz session, and a few small ones,
\* one of them with nyquist frequency 0.
RoundTripShapes == {<<44100, 4097>>, <<48000, 4097>>, <<8192, 4097>>,
                    <<100, 51>>, <<4, 3>>, <<2, 2>>, <<1, 2>>}
\* Lengths of the views whose spectra are merged.
MergeLens == {1, 2, 4}

VARIABLES
    mode,        \* "pull": IntrospectedSource, "push": IntrospectedStream callback
    nch,         \* access.len(): number of channel buffers of the session
    cap,         \* buffer_size
    buf,         \* access: channel index -> VecDeque, front (newest) first
    wlock,       \* channels whose RwLock is write-locked (by the producer)
    rlock,       \* channels whose RwLock is read-locked (by the consumer)
    ppc,         \* producer position
    cur,         \* current_channel
    pval,        \* the value in hand: None or a sample
    block,       \* push mode: the rest of the callback's data slice
    calls,       \* number of next() calls / callback invocations so far
    delivered,   \* number of samples the source / the device has delivered
    pushed,      \* channel index -> the values push_front has been given, in order
    srcOut,      \* pull mode: results the wrapped source has returned
    nextOut,     \* pull mode: results next() has returned
    cpc,         \* consumer position
    ci,          \* consumer: index of the channel being copied
    snaps,       \* consumer: the snapshots collected by the running channels()
    \* ---- compositor (SpecTick)
    spectra,     \* model.spectra: the exposed frame
    sess,        \* model.introspect: [n: channels, rate: sample_rate, size: buffer_size]
    tick         \* what the last update was given and did: kind ("none", "ok",
                 \* "attached" once a session was attached since, "panicked"),
                 \* count of updates, channel count n at it and prevN at the one
                 \* before, prevLen of the frame before it, dt, seed, failed
VARIABLES
    poisoned,    \* channels whose RwLock is poisoned
    prior,       \* the buffers and producer of the session that was replaced
    derived,     \* what the compositor last derived from a view
    memo         \* the inputs and result of the last function application

bufVars == <<mode, nch, cap, buf, wlock, rlock, ppc, cur, pval, block, calls,
             delivered, pushed, srcOut, nextOut, cpc, ci, snaps>>
tickVars == <<spectra, sess, tick>>
auxVars == <<poisoned, prior, derived, memo>>
vars == <<bufVars, tickVars, auxVars>>

\* Option<S>: None is the empty sequence, Some(v) the one-element sequence.
None == <<>>
Some(v) == <<v>>
Unwrap(o) == o[1]
Zero == 0

Min(a, b) == IF a < b THEN a ELSE b
Max(a, b) == IF a > b THEN a ELSE b

Channels == 0 .. (nch - 1)

\* ------------------------------------------------------- VecDeque operations
PushFront(q, v) == <<v>> \o q

PopBack(q) == SubSeq(q, 1, Len(q) - 1)

\* Evict with the comparison >= in place of >.
EvictEager(q, size) == IF Len(q) >= size /\ Len(q) > 0 THEN PopBack(q) ELSE q

\* if writer.len() > buffer_size { writer.pop_back(); }
Evict(q, size) == IF Len(q) > size THEN PopBack(q) ELSE q

\* AdvanceChannel without the advance.
AdvanceStuck(c, n) == c

\* AdvanceChannel stopping at the last channel in place of wrapping around.
AdvanceNoWrap(c, n) == IF c + 1 < n THEN c + 1 ELSE c

\* current_channel = (current_channel + 1) % access.len()
AdvanceChannel(c, n) == (c + 1) % n

\* ------------------------------------------------------------ RwLock guards
\* RwLock::write() returns once no reader and no writer holds the lock.
CanWrite(c) == c \notin rlock /\ c \notin wlock

\* CanRead with one lock for the whole buffer set.
CanReadGlobal(c) == wlock = {}

\* CanRead without waiting for the writer.
CanReadAlways(c) == TRUE

\* RwLock::read() returns once no writer holds the lock.
CanRead(c) == c \notin wlock

\* A guard that is dropped without releasing its lock.
KeepGuard(held) == held

\* The producer's guard `writer` goes out of scope: the one lock it holds is
\* released.
DropGuard(held) == {}

\* A poisoned lock that hands out its guard all the same.
IsPoisonedNever(c) == FALSE

\* write() / read() return Err(PoisonError) once a writer has panicked while
\* holding the lock; .unwrap() turns the Err into a panic.
IsPoisoned(c) == c \in poisoned

\* ---------------------------------------------------------------- snapshot
Zeros(n) == [k \in 1 .. n |-> Zero]

\* read.iter().cloned().chain((0..(buffer_size - read.len())).map(|_| T::default()))
\* buffer_size - read.len() is a usize subtraction: negative has no value
\* (overflow panic, or a wrapped length no allocation satisfies).
PadUnderflows(q, size) == Len(q) > size

Padded(q, size) == q \o Zeros(size - Len(q))

\* ===================================================== the capture buffers
\* What the last update was given and did: no update has run.
NoTick == [kind |-> "none", count |-> 0, n |-> 0, prevN |-> 0, prevLen |-> 0,
           dt |-> 0, seed |-> 0, failed |-> FALSE]

\* No session has been replaced. Once one has: its channel count, capacity,
\* buffers and current channel, and the number of pushes its producer has
\* performed since.
NoPrior == [swaps |-> 0, nch |-> 0, cap |-> 0, buf |-> <<>>, cur |-> 0, late |-> 0]

Init ==
    /\ mode \in {"pull", "push"}
    /\ nch \in 0 .. MaxChannels
    /\ cap \in 0 .. MaxCap
    /\ buf = [c \in 0 .. (nch - 1) |-> <<>>]
    /\ wlock = {}
    /\ rlock = {}
    /\ ppc = "idle"
    /\ cur = 0
    /\ pval = None
    /\ block = <<>>
    /\ calls = 0
    /\ delivered = 0
    /\ pushed = [c \in 0 .. (nch - 1) |-> <<>>]
    /\ srcOut = <<>>
    /\ nextOut = <<>>
    /\ cpc = "idle"
    /\ ci = 0
    /\ snaps = <<>>
    /\ spectra = <<>>
    /\ sess = [n |-> 0, rate |-> 1, size |-> 1]
    /\ tick = NoTick
    /\ poisoned = {}
    /\ prior = NoPrior
    /\ derived = None
    /\ memo = None

\* ---- IntrospectedSource::next (the pull-driven producer)
\* let mut writer = self.access[self.current_channel].write().unwrap();
\* With no channel the index is out of bounds and next() panics; with a
\* poisoned lock the unwrap panics once the lock has been obtained.
NextAcquire ==
    /\ mode = "pull" /\ ppc = "idle" /\ calls < MaxCalls
    /\ calls' = calls + 1
    /\ IF nch = 0
       THEN ppc' = "panicked" /\ UNCHANGED wlock
       ELSE /\ CanWrite(cur)
            /\ IF IsPoisoned(cur)
               THEN ppc' = "panicked" /\ UNCHANGED wlock
               ELSE wlock' = wlock \cup {cur} /\ ppc' = "pull"
    /\ UNCHANGED <<mode, nch, cap, buf, rlock, cur, pval, block, delivered,
                   pushed, srcOut, nextOut, cpc, ci, snaps, tickVars, auxVars>>

\* AfterPull with the channel advance outside the `if let`.
AfterPullAdvancing(r) == IF r = None THEN "advance" ELSE "push_front"

\* if let Some(value) = value { .. }: only a delivered sample enters the
\* push; None goes straight to the return.
AfterPull(r) == IF r = None THEN "return" ELSE "push_front"

\* let value = self.original.next();
NextPull ==
    /\ ppc = "pull"
    /\ \E r \in {None, Some(delivered + 1)} :
         /\ pval' = r
         /\ srcOut' = Append(srcOut, r)
         /\ delivered' = IF r = None THEN delivered ELSE delivered + 1
         /\ ppc' = AfterPull(r)
    /\ UNCHANGED <<mode, nch, cap, buf, wlock, rlock, cur, block, calls,
                   pushed, nextOut, cpc, ci, snaps, tickVars, auxVars>>

\* writer.push_front(value.clone());
NextPushFront ==
    /\ ppc = "push_front"
    /\ buf' = [buf EXCEPT ![cur] = PushFront(@, Unwrap(pval))]
    /\ pushed' = [pushed EXCEPT ![cur] = Append(@, Unwrap(pval))]
    /\ ppc' = "evict"
    /\ UNCHANGED <<mode, nch, cap, wlock, rlock, cur, pval, block, calls,
                   delivered, srcOut, nextOut, cpc, ci, snaps, tickVars, auxVars>>

\* if writer.len() > self.buffer_size { writer.pop_back(); }
NextEvict ==
    /\ ppc = "evict"
    /\ buf' = [buf EXCEPT ![cur] = Evict(@, cap)]
    /\ ppc' = "advance"
    /\ UNCHANGED <<mode, nch, cap, wlock, rlock, cur, pval, block, calls,
                   delivered, pushed, srcOut, nextOut, cpc, ci, snaps, tickVars, auxVars>>

\* self.current_channel = (self.current_channel + 1) % self.access.len();
\* The guard `writer` still refers to the channel it was taken for.
NextAdvance ==
    /\ ppc = "advance"
    /\ cur' = AdvanceChannel(cur, nch)
    /\ ppc' = "return"
    /\ UNCHANGED <<mode, nch, cap, buf, wlock, rlock, pval, block, calls,
                   delivered, pushed, srcOut, nextOut, cpc, ci, snaps, tickVars, auxVars>>

\* value  (the function returns; `writer` is dropped and the lock released)
NextReturn ==
    /\ ppc = "return"
    /\ wlock' = DropGuard(wlock)
    /\ nextOut' = Append(nextOut, pval)
    /\ ppc' = "idle"
    /\ UNCHANGED <<mode, nch, cap, buf, rlock, cur, pval, block, calls,
                   delivered, pushed, srcOut, cpc, ci, snaps, tickVars, auxVars>>

\* ---- IntrospectedStream::new, the input callback (the push-driven producer)
\* move |data: &[f32], _info| { ... }: the device delivers a block
CallbackStart ==
    /\ mode = "push" /\ ppc = "idle" /\ calls < MaxCalls
    /\ \E n \in 0 .. MaxBlock :
         /\ block' = [k \in 1 .. n |-> delivered + k]
         /\ delivered' = delivered + n
    /\ calls' = calls + 1
    /\ ppc' = "loop"
    /\ UNCHANGED <<mode, nch, cap, buf, wlock, rlock, cur, pval, pushed,
                   srcOut, nextOut, cpc, ci, snaps, tickVars, auxVars>>

\* for value in data { let mut writer = access[current_channel].write().unwrap();
CallbackLoop ==
    /\ ppc = "loop"
    /\ IF block = <<>>
       THEN ppc' = "idle" /\ UNCHANGED <<wlock, pval, block>>
       ELSE IF nch = 0
            THEN ppc' = "panicked" /\ UNCHANGED <<wlock, pval, block>>
            ELSE /\ CanWrite(cur)
                 /\ IF IsPoisoned(cur)
                    THEN ppc' = "panicked" /\ UNCHANGED <<wlock, pval, block>>
                    ELSE /\ wlock' = wlock \cup {cur}
                         /\ pval' = Some(Head(block))
                         /\ block' = Tail(block)
                         /\ ppc' = "cb_push_front"
    /\ UNCHANGED <<mode, nch, cap, buf, rlock, cur, calls, delivered, pushed,
                   srcOut, nextOut, cpc, ci, snaps, tickVars, auxVars>>

\* writer.push_front(value.clone());
CallbackPushFront ==
    /\ ppc = "cb_push_front"
    /\ buf' = [buf EXCEPT ![cur] = PushFront(@, Unwrap(pval))]
    /\ pushed' = [pushed EXCEPT ![cur] = Append(@, Unwrap(pval))]
    /\ ppc' = "cb_evict"
    /\ UNCHANGED <<mode, nch, cap, wlock, rlock, cur, pval, block, calls,
                   delivered, srcOut, nextOut, cpc, ci, snaps, tickVars, auxVars>>

\* if writer.len() > introspected.buffer_size { writer.pop_back(); }
CallbackEvict ==
    /\ ppc = "cb_evict"
    /\ buf' = [buf EXCEPT ![cur] = Evict(@, cap)]
    /\ ppc' = "cb_advance"
    /\ UNCHANGED <<mode, nch, cap, wlock, rlock, cur, pval, block, calls,
                   delivered, pushed, srcOut, nextOut, cpc, ci, snaps, tickVars, auxVars>>

\* introspected.current_channel = (introspected.current_channel + 1) % access.len();
\* } (the iteration ends; `writer` is dropped and the lock released)
CallbackAdvance ==
    /\ ppc = "cb_advance"
    /\ cur' = AdvanceChannel(cur, nch)
    /\ wlock' = DropGuard(wlock)
    /\ ppc' = "loop"
    /\ UNCHANGED <<mode, nch, cap, buf, rlock, pval, block, calls, delivered,
                   pushed, srcOut, nextOut, cpc, ci, snaps, tickVars, auxVars>>

\* ---- Introspectable::channels (the consumer)
\* self.access.iter().map(|channel| { ... }).collect()
ChannelsStart ==
    /\ cpc = "idle"
    /\ snaps' = <<>>
    /\ ci' = 0
    /\ cpc' = IF nch = 0 THEN "idle" ELSE "acquire"
    \* the views of the tick before are gone
    /\ derived' = None
    /\ UNCHANGED <<mode, nch, cap, buf, wlock, rlock, ppc, cur, pval, block,
                   calls, delivered, pushed, srcOut, nextOut, tickVars,
                   poisoned, prior, memo>>

\* let read = channel.read().unwrap();
ChannelsAcquire ==
    /\ cpc = "acquire"
    /\ CanRead(ci)
    /\ IF IsPoisoned(ci)
       THEN cpc' = "panicked" /\ UNCHANGED rlock
       ELSE rlock' = rlock \cup {ci} /\ cpc' = "copy"
    /\ UNCHANGED <<mode, nch, cap, buf, wlock, ppc, cur, pval, block, calls,
                   delivered, pushed, srcOut, nextOut, ci, snaps, tickVars, auxVars>>

\* read.iter().cloned().chain(...).collect::<Vec<_>>()
ChannelsCopy ==
    /\ cpc = "copy"
    /\ IF PadUnderflows(buf[ci], cap)
       THEN cpc' = "panicked" /\ rlock' = rlock \ {ci} /\ UNCHANGED snaps
       ELSE /\ snaps' = Append(snaps, Padded(buf[ci], cap))
            /\ cpc' = "copied"
            /\ UNCHANGED rlock
    /\ UNCHANGED <<mode, nch, cap, buf, wlock, ppc, cur, pval, block, calls,
                   delivered, pushed, srcOut, nextOut, ci, tickVars, auxVars>>

\* } (the closure ends; `read` is dropped; the iterator moves on)
ChannelsRelease ==
    /\ cpc = "copied"
    /\ rlock' = rlock \ {ci}
    /\ IF ci + 1 < nch
       THEN ci' = ci + 1 /\ cpc' = "acquire"
       ELSE ci' = ci /\ cpc' = "idle"
    /\ UNCHANGED <<mode, nch, cap, buf, wlock, ppc, cur, pval, block, calls,
                   delivered, pushed, srcOut, nextOut, snaps, tickVars, auxVars>>

Next ==
    \/ NextAcquire
    \/ NextPull
    \/ NextPushFront
    \/ NextEvict
    \/ NextAdvance
    \/ NextReturn
    \/ CallbackStart
    \/ CallbackLoop
    \/ CallbackPushFront
    \/ CallbackEvict
    \/ CallbackAdvance
    \/ ChannelsStart
    \/ ChannelsAcquire
    \/ ChannelsCopy
    \/ ChannelsRelease

Spec == Init /\ [][Next]_vars

\* The steps of a producer that holds a lock: none of them waits for
\* anything but the wrapped source, which returns.
ProducerStep ==
    \/ NextPull
    \/ NextPushFront
    \/ NextEvict
    \/ NextAdvance
    \/ NextReturn
    \/ CallbackPushFront
    \/ CallbackEvict
    \/ CallbackAdvance

\* The steps of a consumer that holds a lock.
ConsumerStep ==
    \/ ChannelsCopy
    \/ ChannelsRelease

\* Fair scheduling: a thread that can run does run, and a thread waiting
\* for a lock that is released again and again obtains it. When next(), the
\* callback and channels() are called is left to their callers.
FairSpec ==
    /\ Spec
    /\ WF_vars(ProducerStep)
    /\ WF_vars(ConsumerStep)
    /\ SF_vars(CallbackLoop)
    /\ SF_vars(ChannelsAcquire)

\* ---- replacing the session
\* NewBuffers handing the new session the buffers of the old one.
ReusedBuffers(n, was) ==
    [c \in 0 .. (n - 1) |-> IF c \in DOMAIN was THEN was[c] ELSE <<>>]

\* Arc::new((0..num_channels).map(|_| RwLock::new(
\*     VecDeque::with_capacity(buffer_size))).collect())
NewBuffers(n, was) == [c \in 0 .. (n - 1) |-> <<>>]

\* on_dropped_file: let (introspected, introspect) = introspect(source, ..);
\* model.introspect = introspect;  (init_device: introspect_device likewise).
\* It runs on the thread that runs update, so never inside channels(). The
\* old producer keeps its own Arc of the old buffers.
Replace ==
    /\ cpc = "idle"
    /\ prior.swaps < MaxSwaps
    /\ prior' = [swaps |-> prior.swaps + 1, nch |-> nch, cap |-> cap,
                 buf |-> buf, cur |-> cur, late |-> 0]
    /\ mode' \in {"pull", "push"}
    /\ nch' \in 0 .. MaxChannels
    /\ cap' \in 0 .. MaxCap
    /\ buf' = NewBuffers(nch', buf)
    /\ pushed' = [c \in 0 .. (nch' - 1) |-> <<>>]
    /\ wlock' = {} /\ rlock' = {} /\ poisoned' = {}
    /\ ppc' = "idle" /\ cur' = 0 /\ pval' = None /\ block' = <<>>
    /\ delivered' = 0 /\ srcOut' = <<>> /\ nextOut' = <<>>
    /\ ci' = 0 /\ snaps' = <<>>
    /\ UNCHANGED <<calls, cpc, tickVars, derived, memo>>

\* The producer of the replaced session pushes one more sample (labelled
\* -1, -2, ...) through its own Arc: push_front, pop_back, advance.
LatePush ==
    /\ prior.swaps > 0 /\ prior.nch > 0
    /\ prior.late < MaxLatePushes
    /\ prior' = [prior EXCEPT
                     !.buf[prior.cur] = Evict(PushFront(@, -(prior.late + 1)), prior.cap),
                     !.cur = AdvanceChannel(@, prior.nch),
                     !.late = @ + 1]
    /\ UNCHANGED <<bufVars, tickVars, poisoned, derived, memo>>

\* One sample through the producer of the attached session, as one step
\* (either producer: lock, push_front, pop_back, advance, unlock).
ProducerPush ==
    /\ nch > 0
    /\ delivered < MaxCalls
    /\ CanWrite(cur)
    /\ delivered' = delivered + 1
    /\ buf' = [buf EXCEPT ![cur] = Evict(PushFront(@, delivered + 1), cap)]
    /\ pushed' = [pushed EXCEPT ![cur] = Append(@, delivered + 1)]
    /\ cur' = AdvanceChannel(cur, nch)
    /\ UNCHANGED <<mode, nch, cap, wlock, rlock, ppc, pval, block, calls,
                   srcOut, nextOut, cpc, ci, snaps, tickVars, auxVars>>

NextSwap ==
    \/ Replace
    \/ ProducerPush
    \/ LatePush
    \/ ChannelsStart
    \/ ChannelsAcquire
    \/ ChannelsCopy
    \/ ChannelsRelease

SpecSwap == Init /\ [][NextSwap]_vars

\* ---- the views of a tick
\* AudioView::new(sample_rate, data)
AudioView(rate, data) == [samples |-> data, sample_rate |-> rate]

\* *value *= 0.5 - 0.5 * ((2.0 * PI * i as f32) / (size as f32 - 1.0)).cos():
\* a windowed sample is kept as the sample with its window position.
hann(data, size) == [k \in 1 .. Len(data) |-> [s |-> data[k], i |-> k - 1, n |-> size]]

\* AudioView::subview(lo..hi): a new view over samples[lo..hi]; the parent is
\* only read. The slice panics unless lo <= hi <= len.
SliceInRange(view, lo, hi) == lo <= hi /\ hi <= Len(view.samples)

\* SubviewOf taking the first hi - lo samples whatever lo is.
SubviewFromStart(view, lo, hi) ==
    AudioView(view.sample_rate, SubSeq(view.samples, 1, hi - lo))

SubviewOf(view, lo, hi) ==
    AudioView(view.sample_rate, SubSeq(view.samples, lo + 1, hi))

\* try_into_spectrum up to the FFT: input is a copy of the samples, and
\* hann(&mut input, fft_size) and fft.process work on the copy; what it
\* leaves of the view and the windowed input.
WindowCopy(view) ==
    [view |-> view,
     input |-> hann(view.samples, Len(view.samples))]

\* Introspectable::audio_views, once channels() has returned: one view per
\* snapshot, with the session's sample rate (buffer_size = sample_rate * 1 s).
\* `taken` remembers the snapshots the views were made of.
AudioViews ==
    /\ cpc = "idle" /\ nch > 0 /\ Len(snaps) = nch
    /\ derived = None
    /\ derived' = Some([views |-> [k \in 1 .. nch |-> AudioView(cap, snaps[k])],
                        taken |-> snaps,
                        range |-> <<0, 0, 0>>,
                        sub |-> None,
                        input |-> None])
    /\ UNCHANGED <<bufVars, tickVars, poisoned, prior, memo>>

\* view.subview(lo..hi) on view k
ViewSubview ==
    /\ derived # None
    /\ \E k \in 1 .. nch, lo \in 0 .. cap, hi \in 0 .. cap :
         LET d == Unwrap(derived)
         IN  /\ SliceInRange(d.views[k], lo, hi)
             /\ derived' = Some([d EXCEPT
                                    !.range = <<k, lo, hi>>,
                                    !.sub = Some(SubviewOf(d.views[k], lo, hi))])
    /\ UNCHANGED <<bufVars, tickVars, poisoned, prior, memo>>

\* view.try_into_spectrum(&mut planner) on view k
ViewAnalyze ==
    /\ derived # None
    /\ \E k \in 1 .. nch :
         LET d == Unwrap(derived)
             e == WindowCopy(d.views[k])
         IN  derived' = Some([d EXCEPT !.views[k] = e.view,
                                       !.input = Some(e.input)])
    /\ UNCHANGED <<bufVars, tickVars, poisoned, prior, memo>>

NextView ==
    \/ ProducerPush
    \/ ChannelsStart
    \/ ChannelsAcquire
    \/ ChannelsCopy
    \/ ChannelsRelease
    \/ AudioViews
    \/ ViewSubview
    \/ ViewAnalyze

SpecView == Init /\ [][NextView]_vars

\* ---- a wrapped source that panics
\* let value = self.original.next(); where the wrapped source panics: next()
\* unwinds while `writer` is alive, which poisons the lock of the current
\* channel and releases it. current_channel is as it was. A caller that
\* survives the panic can call next() again.
NextSourcePanic ==
    /\ ppc = "pull"
    /\ poisoned' = poisoned \cup wlock
    /\ wlock' = {}
    /\ ppc' = "idle"
    /\ UNCHANGED <<mode, nch, cap, buf, rlock, cur, pval, block, calls,
                   delivered, pushed, srcOut, nextOut, cpc, ci, snaps, tickVars,
                   prior, derived, memo>>

NextPoison ==
    \/ Next
    \/ NextSourcePanic

SpecPoison == Init /\ [][NextPoison]_vars

\* ================================================= properties of the buffers
Reverse(s) == [k \in 1 .. Len(s) |-> s[Len(s) + 1 - k]]

LastN(s, n) == SubSeq(s, Len(s) - n + 1, Len(s))

\* The `size` most recent entries of a push history, most recent first.
NewestFirst(hist, size) == Reverse(LastN(hist, Min(Len(hist), size)))

\* Samples of the current block that the callback has not yet taken.
Processed == delivered - Len(block)

\* The labels i of 1..n with (i - 1) mod nch = c, ascending: sample i counted
\* from 0 is label i + 1.
Routed(c, n) == SelectSeq([k \in 1 .. n |-> k], LAMBDA i : (i - 1) % nch = c)

\* The producer has pushed to the front and not yet evicted.
MidPush(c) == c = cur /\ ppc \in {"evict", "cb_evict"}

\* C1: after every completed push a channel buffer that has been pushed N
\* values holds exactly min(N, capacity) of them, the most recent ones,
\* newest first: a push to a full buffer has evicted exactly the oldest.
C1_CapacityBound ==
    \A c \in Channels :
        \/ MidPush(c)
        \/ /\ Len(buf[c]) = Min(Len(pushed[c]), cap)
           /\ buf[c] = NewestFirst(pushed[c], cap)

\* A push to a full buffer has completed: the oldest entry is gone and the
\* newest is at the front.
C1_Witness ==
    /\ ppc \in {"advance", "cb_advance"}
    /\ cap >= 1
    /\ Len(pushed[cur]) > cap
    /\ Len(buf[cur]) = cap
    /\ buf[cur][1] = pushed[cur][Len(pushed[cur])]

\* C2: between pushes, channel c has been pushed exactly the samples i with
\* i mod K = c, in delivery order, over all next() calls and all callback
\* blocks; its buffer holds the newest of them, newest first.
C2_RoundRobin ==
    ppc \in {"idle", "loop"} =>
        \A c \in Channels :
            /\ pushed[c] = Routed(c, Processed)
            /\ buf[c] = NewestFirst(Routed(c, Processed), cap)

\* K = 2, capacity 2, [L0,R0,L1,R1,L2,R2] delivered as two blocks of three.
C2_Witness ==
    /\ mode = "push" /\ ppc = "idle" /\ calls = 2
    /\ nch = 2 /\ cap = 2 /\ delivered = 6
    /\ buf[0] = <<5, 3>> /\ buf[1] = <<6, 4>>

\* Newest first (labels strictly decreasing), then zero samples only.
IsPaddedNewestFirst(s) ==
    \E n \in 0 .. Len(s) :
        /\ \A k \in 1 .. n : s[k] # Zero
        /\ \A k \in (n + 1) .. Len(s) : s[k] = Zero
        /\ \A k \in 1 .. (n - 1) : s[k] > s[k + 1]

\* C3: under every interleaving each snapshot has exactly buffer_size
\* elements, the buffer's content under the read lock, newest first, then
\* zeros; the consumer never sees a buffer longer than buffer_size, so the
\* padding length never underflows.
C3_SnapshotPadded ==
    /\ cpc # "panicked"
    /\ \A k \in 1 .. Len(snaps) :
           Len(snaps[k]) = cap /\ IsPaddedNewestFirst(snaps[k])
    /\ cpc \in {"copy", "copied"} => Len(buf[ci]) <= cap
    /\ cpc = "copied" => snaps[ci + 1] = Padded(buf[ci], cap)

\* A full buffer copied under the read lock while the producer writes
\* another channel.
C3_Witness ==
    /\ cpc = "copied"
    /\ cap >= 1
    /\ Len(pushed[ci]) > cap
    /\ wlock # {}
    /\ snaps[ci + 1] = buf[ci]

IsPrefix(s, t) == Len(s) <= Len(t) /\ s = SubSeq(t, 1, Len(s))

\* C4: the results next() returns are the results the wrapped source
\* returns, in order, and next() never fails to return one.
C4_Transparent ==
    mode = "pull" =>
        /\ ppc # "panicked"
        /\ IsPrefix(nextOut, srcOut)
        /\ ppc = "idle" => nextOut = srcOut

\* C5: the pull-driven producer never holds a channel lock while it pulls
\* the next sample from the wrapped source.
C5_NoLockWhilePulling == ~(ppc = "pull" /\ wlock # {})

\* C6: one lock per channel: while the producer write-locks channel j the
\* consumer's read of any other channel is enabled; the consumer is blocked
\* only by a producer writing the channel it is about to read.
C6_PerChannelLock ==
    /\ \A j \in wlock : \A i \in Channels \ {j} : CanRead(i)
    /\ (cpc = "acquire" /\ ci \notin wlock) => ENABLED ChannelsAcquire

\* The consumer is about to read one channel while the producer is in the
\* middle of a push to another.
C6_Witness ==
    /\ cpc = "acquire"
    /\ wlock # {}
    /\ ci \notin wlock
    /\ ppc \in {"evict", "cb_evict"}

\* ============================================================== f32 values
\* An f32 is modelled as an exact fraction [n, d] in lowest terms with d > 0;
\* d = 0 is a non-finite value: NaN (n = 0) or +infinity (n = 1). Rounding to
\* 24 bits is not modelled here (except in DecayFactor); the values with
\* rounding follow below.
RECURSIVE GCD(_, _)
GCD(a, b) == IF b = 0 THEN a ELSE GCD(b, a % b)

Abs(a) == IF a < 0 THEN -a ELSE a

Frac(n, d) ==
    LET g == GCD(Abs(n), d)
    IN  [n |-> n \div g, d |-> d \div g]

F(i) == [n |-> i, d |-> 1]
NaN == [n |-> 0, d |-> 0]
Inf == [n |-> 1, d |-> 0]
IsFinite(x) == x.d > 0

FAdd(x, y) ==
    IF IsFinite(x) /\ IsFinite(y)
    THEN LET g == GCD(x.d, y.d)
         IN  Frac(x.n * (y.d \div g) + y.n * (x.d \div g), (x.d \div g) * y.d)
    ELSE IF x = NaN \/ y = NaN THEN NaN
    ELSE IF IsFinite(x) \/ IsFinite(y) \/ x = y THEN Inf ELSE NaN

FNeg(x) == IF IsFinite(x) THEN [n |-> -x.n, d |-> x.d] ELSE NaN

\* Only +infinity arises (frequencies and bin counts are not negative), and
\* infinity - infinity is NaN.
FSub(x, y) == IF IsFinite(y) THEN FAdd(x, FNeg(y)) ELSE NaN

FMul(x, y) ==
    IF IsFinite(x) /\ IsFinite(y)
    THEN LET a == Frac(x.n, y.d)
             b == Frac(y.n, x.d)
         IN  [n |-> a.n * b.n, d |-> a.d * b.d]
    ELSE IF x = NaN \/ y = NaN \/ x.n = 0 \/ y.n = 0 THEN NaN
    ELSE Inf

\* x / 0.0 is NaN for x = 0 and infinity otherwise (x is never negative here).
FDiv(x, y) ==
    IF ~IsFinite(x) \/ ~IsFinite(y) THEN NaN
    ELSE IF y.n = 0 THEN (IF x.n = 0 THEN NaN ELSE Inf)
    ELSE IF y.n > 0 THEN FMul(x, [n |-> y.d, d |-> y.n])
    ELSE FMul(x, [n |-> -y.d, d |-> -y.n])

\* f32::floor
Floor(x) == IF IsFinite(x) THEN F(x.n \div x.d) ELSE x

\* f32::fract: self - self.trunc(); NaN for a non-finite value
Fract(x) ==
    IF ~IsFinite(x) THEN NaN
    ELSE IF x.n >= 0 THEN FSub(x, F(x.n \div x.d))
    ELSE FSub(x, F(-((-x.n) \div x.d)))

\* ------------------------------------------------- f32 values with rounding
\* For the bin/frequency round trip the 24-bit rounding of each operation
\* matters. There an f32 is [m, e], the value m * 2^e with 0 <= m < 2^24 and
\* m odd or zero; m = -1 is NaN and m = -2 is +infinity. Exponent range is
\* not modelled (the values are far from overflow and underflow).
RECURSIVE Pow2(_)
Pow2(k) == IF k = 0 THEN 1 ELSE 2 * Pow2(k - 1)

RECURSIVE BitLen(_)
BitLen(n) == IF n = 0 THEN 0 ELSE 1 + BitLen(n \div 2)

R32NaN == [m |-> -1, e |-> 0]
R32Inf == [m |-> -2, e |-> 0]

RECURSIVE R32Norm(_, _)
R32Norm(m, e) ==
    IF m = 0 THEN [m |-> 0, e |-> 0]
    ELSE IF m % 2 = 0 THEN R32Norm(m \div 2, e + 1)
    ELSE [m |-> m, e |-> e]

\* u32 / usize as f32, exact below 2^24
R32FromInt(k) == R32Norm(k, 0)

\* Round to nearest, ties to even: `mant` with the next bit `guard` and
\* whether anything nonzero follows it.
RoundNearestEven(mant, guard, sticky) ==
    IF guard = 1 /\ (sticky \/ mant % 2 = 1) THEN mant + 1 ELSE mant

\* Long division until the quotient has 25 bits: <<quotient, remainder, shift>>.
RECURSIVE LongDiv(_, _, _, _)
LongDiv(q, r, d, sh) ==
    IF q >= Pow2(24) THEN <<q, r, sh>>
    ELSE LET bit == IF 2 * r >= d THEN 1 ELSE 0
         IN  LongDiv(2 * q + bit, 2 * r - bit * d, d, sh + 1)

\* x / y in f32 (x, y not negative)
R32Div(x, y) ==
    IF x.m = -1 \/ y.m = -1 \/ (x.m = -2 /\ y.m = -2) THEN R32NaN
    ELSE IF x.m = -2 THEN R32Inf
    ELSE IF y.m = -2 THEN R32FromInt(0)
    ELSE IF y.m = 0 THEN (IF x.m = 0 THEN R32NaN ELSE R32Inf)
    ELSE IF x.m = 0 THEN R32FromInt(0)
    ELSE LET d == LongDiv(x.m \div y.m, x.m % y.m, y.m, 0)
             mant == RoundNearestEven(d[1] \div 2, d[1] % 2, d[2] # 0)
         IN  R32Norm(mant, x.e - y.e - d[3] + 1)

\* x * y in f32 (x, y not negative): the 48-bit product from 12-bit halves
\* as hi * 2^24 + low, then rounded to 24 bits.
R32Mul(x, y) ==
    IF x.m = -1 \/ y.m = -1 THEN R32NaN
    ELSE IF x.m = -2 \/ y.m = -2
         THEN (IF x.m = 0 \/ y.m = 0 THEN R32NaN ELSE R32Inf)
    ELSE LET a1 == x.m \div 4096
             a0 == x.m % 4096
             b1 == y.m \div 4096
             b0 == y.m % 4096
             w0 == a0 * b0
             t1 == a1 * b0 + a0 * b1 + w0 \div 4096
             hi == a1 * b1 + t1 \div 4096
             low == (t1 % 4096) * 4096 + (w0 % 4096)
             nb == BitLen(hi)
             rem == low % Pow2(nb)
         IN  IF hi = 0 THEN R32Norm(low, x.e + y.e)
             ELSE R32Norm(
                    RoundNearestEven(hi * Pow2(24 - nb) + low \div Pow2(nb),
                                     rem \div Pow2(nb - 1),
                                     rem % Pow2(nb - 1) # 0),
                    x.e + y.e + nb)

\* ========================================================= src/numtools.rs
\* data(index.floor() as usize): the cast saturates (NaN and negatives to 0,
\* infinity to usize::MAX, which no slice reaches); a missing bin is `wrap`.
FetchOr(bins, x, wrap) ==
    LET fl == Floor(x)
        k == IF fl = NaN \/ (IsFinite(fl) /\ fl.n < 0) THEN 0 ELSE fl.n
    IN  IF fl = Inf \/ k >= Len(bins) THEN wrap ELSE bins[k + 1]

\* let min = data(index.floor() as usize).unwrap_or(wrap);
\* min + (data((index + 1.0).floor() as usize).unwrap_or(wrap) - min) * index.fract()
lerp_index_fn(bins, index, wrap) ==
    LET min == FetchOr(bins, index, wrap)
    IN  FAdd(min, FMul(FSub(FetchOr(bins, FAdd(index, F(1)), wrap), min), Fract(index)))

\* lerp with the two ends swapped.
lerp_swapped(a, b, t) == FAdd(b, FMul(FSub(a, b), t))

\* a + (b - a) * t
lerp(a, b, t) == FAdd(a, FMul(FSub(b, a), t))

\* ========================================================== src/fft/fft.rs
\* FrequencySpectrum { bins, sample_rate }
FrequencySpectrum(bins, rate) == [bins |-> bins, sample_rate |-> rate]

\* impl Default for FrequencySpectrum
DefaultSpectrum == FrequencySpectrum(<<>>, 1)

\* self.sample_rate / 2  (u32 division)
nyquist_frequency(s) == s.sample_rate \div 2

\* ratio = hertz.0 / self.nyquist_frequency() as f32; ratio * self.bins.len() as f32
hertz_to_bin(s, hertz) ==
    FMul(FDiv(hertz, F(nyquist_frequency(s))), F(Len(s.bins)))

\* ratio = bin as f32 / (self.bins.len() as f32); Hertz(ratio * nyquist as f32)
bin_to_hertz(s, bin) ==
    FMul(FDiv(F(bin), F(Len(s.bins))), F(nyquist_frequency(s)))

\* hertz_to_bin with the bins of the last bin index in place of the bin count.
hertz_to_bin_last(s, hertz) ==
    R32Mul(R32Div(hertz, R32FromInt(nyquist_frequency(s))),
           R32FromInt(Len(s.bins) - 1))

\* hertz_to_bin and bin_to_hertz again, each operation rounded to f32.
hertz_to_bin_f32(s, hertz) ==
    R32Mul(R32Div(hertz, R32FromInt(nyquist_frequency(s))),
           R32FromInt(Len(s.bins)))

bin_to_hertz_f32(s, bin) ==
    R32Mul(R32Div(R32FromInt(bin), R32FromInt(Len(s.bins))),
           R32FromInt(nyquist_frequency(s)))

\* AudioView::subview(range): the slice samples[range] panics when the range
\* ends beyond the view.
SubviewPanics(view, end) == end > view.len

subview(view, end) == [len |-> end, sample_rate |-> view.sample_rate]

\* The magnitude realfft and the normalisation give bin k of signal `seed`:
\* the FFT backend is not part of the repository, so the magnitudes are an
\* input; signal 0 is silence.
Magnitude(seed, k) == F((seed * (k + 1)) % 3)

\* try_into_spectrum keeping one bin per sample.
try_into_spectrum_full(view, seed) ==
    FrequencySpectrum([k \in 1 .. view.len |-> Magnitude(seed, k)],
                      view.sample_rate)

\* AudioView::try_into_spectrum on success: fft_size / 2 + 1 bins, tagged
\* with the view's sample rate.
try_into_spectrum(view, seed) ==
    FrequencySpectrum([k \in 1 .. (view.len \div 2 + 1) |-> Magnitude(seed, k)],
                      view.sample_rate)

\* ============================================================= src/main.rs
\* introspect / introspect_device: buffer_size = ceil(sample_rate * 1 s)
BufferSize(rate) == rate

\* self.channels().iter().map(|channel| AudioView::new(self.sample_rate, ...))
\* Only a view's length and rate matter to the compositor.
audio_views(s) == [c \in 1 .. s.n |-> [len |-> s.size, sample_rate |-> s.rate]]

RECURSIVE Pow(_, _)
Pow(x, k) == IF k = 0 THEN F(1) ELSE FMul(x, Pow(x, k - 1))

\* A decay factor that grows linearly with the elapsed time.
DecayLinear(cs) == IF cs >= 5 THEN F(1) ELSE Frac(cs, 5)

\* 1.0 - (1.0 - lerp_per_cs).pow(delta_time * 100.0), lerp_per_cs = 0.2
DecayFactor(cs) ==
    IF cs >= SaturationCs THEN F(1) ELSE FSub(F(1), Pow(Frac(4, 5), cs))

\* The two reconciler closures of update, as values: a closure is its code
\* and what it captures (the smoothing closure captures the decay factor).
BlendClosure == [code |-> "blend", factor |-> Frac(3, 5)]
SmoothClosure(factor) == [code |-> "smooth", factor |-> factor]

\* reconciler(self, (frequency, value), other) for the two closures:
\* |_, (frequency, value), other| lerp(value,
\*     lerp_index_fn(|x| other.get(x), other.hertz_to_bin(frequency), 0f32), 0.6f32)
\* |_, (frequency, value), old| lerp(
\*     lerp_index_fn(|x| old.get(x), old.hertz_to_bin(frequency), 0f32), value, factor)
Reconcile(closure, self, frequency, value, other) ==
    LET there == lerp_index_fn(other.bins, hertz_to_bin(other, frequency), F(0))
    IN  IF closure.code = "blend"
        THEN lerp(value, there, closure.factor)
        ELSE lerp(there, value, closure.factor)

\* merge walking the bins of `other` and keeping its sample rate.
merge_other_shape(self, other, reconciler) ==
    FrequencySpectrum(
        [k \in 1 .. Len(other.bins) |->
            Reconcile(reconciler, self, bin_to_hertz(self, k - 1),
                      IF k <= Len(self.bins) THEN self.bins[k] ELSE F(0), other)],
        other.sample_rate)

\* FrequencySpectrum::merge: self.bins.iter().enumerate().map(|(index, value)|
\* reconciler(self, (self.bin_to_hertz(index), *value), other)), with
\* self.sample_rate
merge(self, other, reconciler) ==
    FrequencySpectrum(
        [k \in 1 .. Len(self.bins) |->
            Reconcile(reconciler, self, bin_to_hertz(self, k - 1), self.bins[k], other)],
        self.sample_rate)

\* The value of the view-mapping closure for one channel.
Blended(view, seed) ==
    merge(try_into_spectrum(view, seed),
          try_into_spectrum(subview(view, LOW_RES_FFT_SIZE), seed),
          BlendClosure)

\* EitherOrBoth::Both(old, new) => new.merge(&old, |_, (frequency, value), old| ..)
Smoothed(old, new, factor) == merge(new, old, SmoothClosure(factor))

\* The view-mapping closure over all channels: channel c carries signal
\* seed + c.
BlendedViews(views, seed) ==
    [c \in 1 .. Len(views) |-> Blended(views[c], seed + c - 1)]

\* old.zip_longest(new).map(|eob| match eob { Both(old, new) => ...,
\*     Left(_) => FrequencySpectrum::default(), Right(new) => new }).collect()
Combine(old, new, factor) ==
    [k \in 1 .. Max(Len(old), Len(new)) |->
        IF k <= Len(old) /\ k <= Len(new) THEN Smoothed(old[k], new[k], factor)
        ELSE IF k <= Len(old) THEN DefaultSpectrum
        ELSE new[k]]

InitTick ==
    /\ mode = "pull" /\ nch = 0 /\ cap = 0 /\ buf = <<>> /\ wlock = {}
    /\ rlock = {} /\ ppc = "idle" /\ cur = 0 /\ pval = None /\ block = <<>>
    /\ calls = 0 /\ delivered = 0 /\ pushed = <<>> /\ srcOut = <<>>
    /\ nextOut = <<>> /\ cpc = "idle" /\ ci = 0 /\ snaps = <<>>
    \* Model { introspect: Introspectable::default(), spectra: Vec::new(), .. }
    /\ spectra = <<>>
    /\ sess = [n |-> 0, rate |-> 1, size |-> 1]
    /\ tick = NoTick
    /\ poisoned = {}
    /\ prior = NoPrior
    /\ derived = None
    /\ memo = None

\* on_dropped_file / init_device: model.introspect = introspect;
Attach ==
    /\ tick.kind # "panicked"
    /\ \E n \in 0 .. MaxTickChannels, rate \in Rates :
         sess' = [n |-> n, rate |-> rate, size |-> BufferSize(rate)]
    /\ tick' = [tick EXCEPT !.kind = IF @ = "none" THEN "none" ELSE "attached"]
    /\ UNCHANGED <<spectra, bufVars, auxVars>>

\* fn update: one tick. `fails` is whether one of the try_into_spectrum
\* calls of the tick returns Err; .unwrap() then panics, as the subview slice
\* does when the view is shorter than LOW_RES_FFT_SIZE.
Update ==
    /\ tick.kind # "panicked"
    /\ tick.count < MaxTicks
    /\ \E cs \in DeltaCs, seed \in Seeds, fails \in BOOLEAN :
         LET views == audio_views(sess)
             new == BlendedViews(views, seed)
             panics == Len(views) > 0 /\
                       (SubviewPanics(views[1], LOW_RES_FFT_SIZE) \/ fails)
         IN  /\ fails => Len(views) > 0 /\ ~SubviewPanics(views[1], LOW_RES_FFT_SIZE)
             /\ IF panics
                THEN /\ tick' = [tick EXCEPT !.kind = "panicked", !.failed = fails,
                                             !.count = @ + 1]
                     /\ UNCHANGED spectra
                ELSE /\ spectra' = Combine(spectra, new, DecayFactor(cs))
                     /\ tick' = [kind |-> "ok", count |-> tick.count + 1,
                                 n |-> sess.n, prevN |-> tick.n,
                                 prevLen |-> Len(spectra), dt |-> cs,
                                 seed |-> seed, failed |-> FALSE]
    /\ UNCHANGED <<sess, bufVars, auxVars>>

NextTick ==
    \/ Attach
    \/ Update

SpecTick == InitTick /\ [][NextTick]_vars

\* ---- the functions of the compositor, applied alone: one application per
\* behaviour, its inputs and result kept in memo
\* view.try_into_spectrum(..) on a view of any length and rate
ApplyAnalyze ==
    /\ memo = None
    /\ \E len \in 1 .. MaxViewLen, rate \in Rates, seed \in Seeds :
         LET view == [len |-> len, sample_rate |-> rate]
         IN  memo' = Some([op |-> "analyze", view |-> view,
                           out |-> try_into_spectrum(view, seed)])
    /\ UNCHANGED <<bufVars, tickVars, poisoned, prior, derived>>

\* The spectra given to merge: the default spectrum and analysed views.
MergeOperands ==
    {DefaultSpectrum} \cup
    {try_into_spectrum([len |-> len, sample_rate |-> rate], seed) :
        len \in MergeLens, rate \in Rates, seed \in Seeds}

\* self.merge(&other, reconciler) with either closure of update
ApplyMerge ==
    /\ memo = None
    /\ \E self \in MergeOperands, other \in MergeOperands,
          closure \in {BlendClosure} \cup
                      {SmoothClosure(DecayFactor(cs)) : cs \in DeltaCs} :
         memo' = Some([op |-> "merge", self |-> self, other |-> other,
                       closure |-> closure,
                       out |-> merge(self, other, closure)])
    /\ UNCHANGED <<bufVars, tickVars, poisoned, prior, derived>>

\* spectrum.hertz_to_bin(spectrum.bin_to_hertz(bin)) in f32
ApplyRoundTrip ==
    /\ memo = None
    /\ \E shape \in RoundTripShapes :
         LET s == FrequencySpectrum([k \in 1 .. shape[2] |-> F(0)], shape[1])
         IN  \E bin \in 0 .. (shape[2] - 1) :
                memo' = Some([op |-> "round_trip", sample_rate |-> shape[1],
                              bins |-> shape[2], bin |-> bin,
                              out |-> hertz_to_bin_f32(s, bin_to_hertz_f32(s, bin))])
    /\ UNCHANGED <<bufVars, tickVars, poisoned, prior, derived>>

\* The frame of a channel set through two update ticks with elapsed times
\* t1 and t2, and through one tick with t1 + t2, the blended spectra `new`
\* of the ticks being the same.
ApplySmoothing ==
    /\ memo = None
    /\ \E n \in 1 .. MaxTickChannels, rate \in Rates \ {1},
          seedOld \in Seeds \cup {2}, seedNew \in Seeds \cup {2},
          t1 \in SplitCs, t2 \in SplitCs :
         LET views == audio_views([n |-> n, rate |-> rate, size |-> BufferSize(rate)])
             frame == BlendedViews(views, seedOld)
             new == BlendedViews(views, seedNew)
         IN  memo' = Some([op |-> "smooth", frame |-> frame, new |-> new,
                           t1 |-> t1, t2 |-> t2,
                           two |-> Combine(Combine(frame, new, DecayFactor(t1)),
                                           new, DecayFactor(t2)),
                           one |-> Combine(frame, new, DecayFactor(t1 + t2))])
    /\ UNCHANGED <<bufVars, tickVars, poisoned, prior, derived>>

NextPure ==
    \/ ApplyAnalyze
    \/ ApplyMerge
    \/ ApplySmoothing
    \/ ApplyRoundTrip

SpecPure == InitTick /\ [][NextPure]_vars

\* ============================================== properties of the compositor
\* The blended spectra the last successful update computed (the session is
\* the one the update read as long as tick.kind = "ok").
LastBlended == BlendedViews(audio_views(sess), tick.seed)

\* C7: after an update tick the frame holds exactly one spectrum per channel
\* of the attached session: none is left for a channel that disappeared.
C7_FrameMatchesSession == tick.kind = "ok" => Len(spectra) = tick.n

\* C8: a channel present at a tick and absent from the session at the
\* preceding tick is exposed raw: its spectrum is the blended spectrum of
\* the tick.
C8_NewChannelRaw ==
    tick.kind = "ok" =>
        \A k \in (tick.prevN + 1) .. tick.n : spectra[k] = LastBlended[k]

\* A step that is a successful update tick.
TickStep == tick'.kind = "ok" /\ tick'.count = tick.count + 1

\* The previous frame's value read at the frequency of bin b of `new`.
OldValueAt(old, new, b) ==
    lerp_index_fn(old.bins, hertz_to_bin(old, bin_to_hertz(new, b - 1)), F(0))

SameShape(old, new) ==
    /\ Len(old.bins) = Len(new.bins)
    /\ nyquist_frequency(old) = nyquist_frequency(new)
    /\ nyquist_frequency(old) > 0

C10_ConversionRecoverable == tick.failed => tick.kind # "panicked"

\* C11: for every attached session the prefix 0..LOW_RES_FFT_SIZE requested
\* for the short-window analysis lies within each channel's view, and no
\* update tick stops at the subview (a tick stops only where a conversion
\* fails).
C11_ShortWindowInView ==
    /\ \A c \in 1 .. sess.n :
           ~SubviewPanics(audio_views(sess)[c], LOW_RES_FFT_SIZE)
    /\ tick.kind = "panicked" => tick.failed

\* C19: for channels i < j of one session the number of values ever pushed
\* to channel i exceeds the number pushed to channel j by 0 or 1; whenever the
\* producer is not between a push_front and its eviction the buffer lengths
\* differ the same way: a lower channel is never less full than a higher one.
C19_BalancedChannels ==
    \A i \in Channels : \A j \in Channels :
        i < j =>
            /\ Len(pushed[i]) - Len(pushed[j]) \in {0, 1}
            /\ ppc \notin {"evict", "cb_evict"} =>
                   Len(buf[i]) - Len(buf[j]) \in {0, 1}

\* Between two pushes of a stereo session the left channel has received one
\* sample more than the right one, and its buffer is one longer.
C19_Witness ==
    /\ ppc \in {"idle", "loop"}
    /\ nch = 2
    /\ Len(pushed[0]) = Len(pushed[1]) + 1
    /\ Len(buf[0]) = Len(buf[1]) + 1
    /\ Len(pushed[1]) >= 1

\* C12: a poisoned lock stays poisoned and is held by nobody; the buffer it
\* guards is never modified again; a push that reaches the poisoned channel
\* and a snapshot that reaches it end in a panic, the snapshot without
\* returning anything.
C12_PoisonFatal ==
    /\ [](\A c \in poisoned : c \notin wlock /\ c \notin rlock)
    /\ [][/\ poisoned \subseteq poisoned'
          /\ \A c \in poisoned : buf'[c] = buf[c] /\ pushed'[c] = pushed[c]
          /\ (mode = "pull" /\ ppc = "idle" /\ ppc' # "idle" /\ cur \in poisoned)
                 => ppc' = "panicked"
          /\ (cpc = "acquire" /\ cpc' # "acquire" /\ ci \in poisoned)
                 => cpc' = "panicked" /\ snaps' = snaps]_vars

\* The source has panicked under the lock of a channel; the next push and a
\* snapshot that reached the channel have both panicked.
C12_Witness ==
    /\ poisoned # {}
    /\ ppc = "panicked"
    /\ cpc = "panicked"
    /\ cur \in poisoned /\ ci \in poisoned
    /\ Len(buf[ci]) >= 1

\* The producer holds a lock; the consumer has started a snapshot.
PushStarted ==
    ppc \in {"pull", "push_front", "evict", "advance", "return",
             "cb_push_front", "cb_evict", "cb_advance"}
SnapshotStarted == cpc \in {"acquire", "copy", "copied"}

\* The producer, respectively the consumer, waits for a lock it cannot have.
ProducerBlocked ==
    /\ nch > 0
    /\ \/ mode = "pull" /\ ppc = "idle"
       \/ ppc = "loop" /\ block # <<>>
    /\ ~CanWrite(cur)
ConsumerBlocked == cpc = "acquire" /\ ~CanRead(ci)

\* C20: the producer and the consumer each hold at most one channel lock,
\* and none while waiting for one, so they never block each other; under
\* fair scheduling every started push reaches the release of its lock,
\* every started callback returns, and every started snapshot returns.
C20_NoDeadlock ==
    /\ [](/\ Cardinality(wlock) <= 1
          /\ Cardinality(rlock) <= 1
          /\ PushStarted <=> wlock # {}
          /\ cpc \in {"copy", "copied"} <=> rlock # {}
          /\ ~(ProducerBlocked /\ ConsumerBlocked))
    /\ (PushStarted ~> ~PushStarted)
    /\ ((ppc = "loop" /\ nch > 0) ~> ppc = "idle")
    /\ (SnapshotStarted ~> cpc = "idle")

\* The consumer waits for the very lock the producer holds, in the middle
\* of a snapshot of a stereo session.
C20_Witness ==
    /\ ConsumerBlocked
    /\ PushStarted
    /\ nch = 2 /\ ci = 1
    /\ Len(snaps) = 1

\* Every entry of snapshot s is a zero sample or a value of history h.
OnlyFrom(s, h) ==
    \A j \in 1 .. Len(s) :
        s[j] = Zero \/ \E q \in 1 .. Len(h) : h[q] = s[j]

\* C13: the buffers of a new session start empty, and from a replacement on
\* every buffer the consumer can read and every snapshot it takes holds only
\* values pushed by the new session's producer (and zero padding): no value
\* the old producer pushes late is in any of them.
C13_ReplacementIsolates ==
    /\ [](\A c \in Channels :
             /\ OnlyFrom(buf[c], pushed[c])
             /\ \A j \in 1 .. Len(buf[c]) : buf[c][j] > 0)
    /\ [](\A k \in 1 .. Len(snaps) :
             /\ OnlyFrom(snaps[k], pushed[k - 1])
             /\ \A j \in 1 .. Len(snaps[k]) : snaps[k][j] >= 0)
    /\ [][prior'.swaps > prior.swaps =>
              /\ snaps' = <<>>
              /\ \A c \in 0 .. (nch' - 1) : buf'[c] = <<>>]_vars

\* A session that had samples was replaced, its producer pushed once more
\* into the old buffers, and a complete snapshot of the new session holds a
\* sample of the new producer.
C13_Witness ==
    /\ prior.swaps = 1 /\ prior.late = 1
    /\ \E c \in DOMAIN prior.buf :
           Len(prior.buf[c]) >= 2 /\ prior.buf[c][1] < 0 /\ prior.buf[c][2] > 0
    /\ cpc = "idle" /\ nch >= 1 /\ Len(snaps) = nch
    /\ \E j \in 1 .. Len(snaps[1]) : snaps[1][j] > 0

\* C14: a snapshot is the padded content of its buffer when it is copied;
\* the views made of the snapshots keep exactly those samples and the
\* session's sample rate, whatever the producer pushes and whichever views
\* are analysed or sliced afterwards; the last subview holds the parent's
\* samples at the indices of its range, with the parent's sample rate.
C14_ViewImmutable ==
    /\ cpc = "copied" => snaps[ci + 1] = Padded(buf[ci], cap)
    /\ derived # None =>
           LET d == Unwrap(derived)
           IN  /\ Len(d.views) = nch
               /\ \A k \in 1 .. nch :
                      /\ d.views[k].samples = d.taken[k]
                      /\ d.views[k].sample_rate = cap
               /\ d.sub # None =>
                      LET k == d.range[1]
                          lo == d.range[2]
                          hi == d.range[3]
                          sub == Unwrap(d.sub)
                      IN  /\ Len(sub.samples) = hi - lo
                          /\ \A j \in 1 .. (hi - lo) :
                                 sub.samples[j] = d.taken[k][lo + j]
                          /\ sub.sample_rate = d.views[k].sample_rate

\* A view was analysed and sliced, and the producer has pushed since the
\* snapshot: the buffer has moved on, the view has not.
C14_Witness ==
    /\ derived # None
    /\ Unwrap(derived).input # None
    /\ Unwrap(derived).sub # None
    /\ Unwrap(derived).range[3] - Unwrap(derived).range[2] = 1
    /\ Unwrap(derived).range[2] = 1
    /\ Unwrap(derived).views[1].samples[1] > 0
    /\ Unwrap(derived).views[1].samples # Padded(buf[0], cap)

\* ------------------------------------- properties of the functions alone
\* The last application, and whether it was of `op`.
Memo == Unwrap(memo)
IsOp(op) == memo # None /\ Memo.op = op

\* C15: self.merge(other, reconciler) has the bin count and the sample rate
\* of self, and its bin i is reconciler(self, (bin_to_hertz(i), self[i]),
\* other), whatever the bin count and sample rate of other.
C15_MergeFrame ==
    IsOp("merge") =>
        /\ Len(Memo.out.bins) = Len(Memo.self.bins)
        /\ Memo.out.sample_rate = Memo.self.sample_rate
        /\ \A i \in 1 .. Len(Memo.self.bins) :
               Memo.out.bins[i] =
                   Reconcile(Memo.closure, Memo.self,
                             bin_to_hertz(Memo.self, i - 1), Memo.self.bins[i],
                             Memo.other)

\* A three-bin spectrum merged with a two-bin spectrum of another sample
\* rate: three finite bins, not those of self.
C15_Witness ==
    /\ IsOp("merge")
    /\ Len(Memo.self.bins) = 3 /\ Len(Memo.other.bins) = 2
    /\ Memo.self.sample_rate # Memo.other.sample_rate
    /\ Len(Memo.out.bins) = 3
    /\ Memo.out.bins # Memo.self.bins
    /\ \A i \in 1 .. 3 : IsFinite(Memo.out.bins[i])

\* |x - bin| <= bin * 2^-21 for a rounded f32 x and a bin index
WithinTolerance(x, bin) ==
    IF x.m < 0 THEN FALSE
    ELSE IF x.e >= 0
         THEN BitLen(x.m) + x.e <= 30 /\ x.m * Pow2(x.e) = bin
    ELSE LET k == -x.e
             d == Abs(x.m - bin * Pow2(k))
         IN  /\ BitLen(bin) + k <= 30
             /\ d < 512
             /\ d * Pow2(21) <= bin * Pow2(k)

\* C16 as claimed: for every spectrum and every bin index b of it,
\* hertz_to_bin(bin_to_hertz(b)) equals b.
C16_AsClaimed == IsOp("round_trip") => Memo.out = R32FromInt(Memo.bin)

\* C16 as amended: with a nyquist frequency of at least 1
\* hertz_to_bin(bin_to_hertz(b)) is b within a relative error of 2^-21;
\* with nyquist frequency 0 it is NaN.
C16_RoundTripTolerance ==
    IsOp("round_trip") =>
        IF Memo.sample_rate \div 2 = 0
        THEN Memo.out = R32NaN
        ELSE WithinTolerance(Memo.out, Memo.bin)

\* A bin of the short-window spectrum at 44100 Hz that comes back changed.
C16_Witness ==
    /\ IsOp("round_trip")
    /\ Memo.sample_rate = 44100 /\ Memo.bins = 4097
    /\ Memo.out.m >= 0
    /\ Memo.out # R32FromInt(Memo.bin)

\* r = (4/5)^cs * x
RECURSIVE IsScaledBy(_, _, _)
IsScaledBy(r, x, cs) ==
    IF cs = 0 THEN r = x ELSE IsScaledBy(FMul(r, Frac(5, 4)), x, cs - 1)

C18_BinCount ==
    IsOp("analyze") =>
        /\ 2 * (Len(Memo.out.bins) - 1) <= Memo.view.len
        /\ Memo.view.len <= 2 * (Len(Memo.out.bins) - 1) + 1
        /\ Memo.out.sample_rate = Memo.view.sample_rate

\* A view of odd length 5 at rate 4: three bins.
C18_Witness ==
    /\ IsOp("analyze")
    /\ Memo.view.len = 5 /\ Memo.view.sample_rate = 4
    /\ Len(Memo.out.bins) = 3

\* The number of values pushed to the first n channels together.
RECURSIVE TotalPushed(_)
TotalPushed(n) == IF n = 0 THEN 0 ELSE Len(pushed[n - 1]) + TotalPushed(n - 1)

\* C21: a buffer changes only in the push of a delivered sample, and then
\* it is the buffer of current_channel; current_channel changes only after
\* such a push, by one modulo the channel count; a None from the wrapped
\* source leads straight to the return and an empty block straight to the
\* end of the callback, with every buffer and current_channel as they were.
\* Between calls the pushes number the delivered samples, one buffer each.
C21_OnlySamplesChange ==
    /\ [](ppc \in {"idle", "loop"} /\ nch > 0 =>
             /\ TotalPushed(nch) = Processed
             /\ cur = Processed % nch)
    /\ [][/\ \A c \in Channels :
                (buf'[c] # buf[c] \/ pushed'[c] # pushed[c]) =>
                    /\ c = cur /\ pval # None
                    /\ ppc \in {"push_front", "evict", "cb_push_front", "cb_evict"}
          /\ cur' # cur =>
                /\ pval # None
                /\ ppc \in {"advance", "cb_advance"}
                /\ cur' = (cur + 1) % nch
          /\ (ppc = "pull" /\ ppc' # "pull" /\ pval' = None) => ppc' = "return"
          /\ (ppc = "return" /\ ppc' # "return") => ppc' = "idle"
          /\ (ppc = "loop" /\ ppc' # "loop" /\ block = <<>>) => ppc' = "idle"]_vars

\* The wrapped source of a stereo session has delivered three samples and
\* then None; next() has returned and the buffers hold the three.
C21_Witness ==
    /\ mode = "pull" /\ ppc = "idle"
    /\ nch = 2 /\ cap = 2
    /\ srcOut = <<Some(1), Some(2), Some(3), None>>
    /\ nextOut = srcOut
    /\ buf[0] = <<3, 1>> /\ buf[1] = <<2>>
    /\ cur = 1

====
